---- MODULE Spec2Model ----
(***************************************************************************)
(* tess-publisher: the per-device reader/sampler pipeline, the shared      *)
(* outbound priority queue and the MQTT publisher task (Spec, FairSpec),   *)
(* the reload monitor (ReloadSpec) and the TCP line framer (TcpSpec).      *)
(*                                                                         *)
(* photometer.py holds two snapshots of class Photometer.  register() and  *)
(* sampler() are the same in both; the readers differ, and `version` says  *)
(* which reader the run uses (1: lines 77-90, 2: lines 178-185).           *)
(*                                                                         *)
(* Envelopes are the 2-tuples (priority, message) the code puts into an    *)
(* asyncio.PriorityQueue; message is a dict.  The queue keeps them in a    *)
(* heapq list and orders them by Python's tuple comparison, which raises   *)
(* TypeError when two priorities tie and the two dicts differ.             *)
(***************************************************************************)
EXTENDS Integers, Sequences, FiniteSets, TLC

\* ---------------------------------------------------------------- bounds
MaxArrivals == 2        \* readings the devices deliver, all together
MaxBytes == 4           \* bytes the TCP socket delivers, all chunks together
MaxCalls == 2           \* __anext__ calls that replace an earlier future
MaxSeq == 3             \* the highest seq of a published reading
MaxPart == 3            \* characters in the part of a MAC string that varies
QSize == 3              \* options["tess"]["qsize"], the queue capacity

\* ------------------------------------------------------------- constants
MQTT_REGISTER == 1      \* constants.py:13 (spelled REGISTER there)
MQTT_READINGS == 2      \* constants.py:14
RegisterDelay == 5      \* photometer.py:155  asyncio.sleep(5)
interval == 5           \* mqtt.py:131

Devices == {"stars1", "stars2"}

VARIABLES
    version,        \* which Photometer snapshot's reader runs
    reader_pc,      \* per device: position of the reader task
    sampler_pc,     \* per device: position of the sampler task
    publisher_pc,   \* position of the publisher task
    queue,          \* per device: self.queue, deque(maxlen=1)
    counter,        \* per device: self.counter
    pending,        \* per device: envelope a suspended put() is holding
    transport,      \* per device: "closed" or "open"
    mqtt_queue,     \* the heap list of the PriorityQueue
    inflight,       \* <<envelope>> the publisher dequeued, or <<>>
    reg_timer,      \* per device: seconds left of register()'s sleep
    pub_timer,      \* seconds left of the publisher's backoff sleep
    \* history variables (observers, never read by the program)
    arrivals,       \* per device: readings pushed so far (the id of the newest)
    emitted,        \* per device: Reading envelopes placed in the queue
    last_a,         \* per device: id of the reading last placed in the queue
    reg_count,      \* per device: Register envelopes placed in the queue
    reg_gap,        \* per device: seconds since the first Register (capped)
    order,          \* the queued envelopes in enqueue order
    after_failure,  \* a broker failure happened, and no envelope now queued
                    \* was enqueued before it
    warned,         \* per device: the last tick logged "missing data"
    outcome,        \* <<how the publisher's last iteration ended>>, <<>> once
                    \* the next one has connected
    last_read,      \* per device: what the reader made of its latest line
    \* the reload monitor (client.py) and the settings it pushes
    monitor_pc,     \* position of the reload_monitor task
    reloaded,       \* client.State.reloaded, the sticky reload request
    mqtt_state,     \* mqtt.State: keepalive, log_level, protocol_log_level
    http_state,     \* http.State: log_level
    options,        \* reload_monitor's local: the configuration last loaded
    \* one TCPProtocol object (transport.py)
    tcp_buffer,         \* self._buffer, a sequence of bytes
    on_data_received,   \* the future of the latest __anext__ call
    on_conn_lost,       \* TRUE once connection_lost() has run
    \* history variables of the TCP framer
    tcp_received,       \* number of bytes the socket has delivered
    tcp_chunk,          \* the chunk of the latest data_received()
    tcp_undelivered,    \* bytes received and not yet returned in a line
    stale,              \* the futures of the earlier __anext__ calls, as
                        \* the latest call left them
    \* functions checked on their own: the input and what came out
    pub_from,       \* the device whose task enqueued the envelope
    pub_envelope,   \* <<envelope>> the publisher has dequeued
    pub_topic,      \* <<topic>> it was published to; <<>> if nothing was
    mac_in,         \* the string given to is_mac_address
    mac_out,        \* what is_mac_address made of it
    \* history variable of the control bus
    signalled       \* the Pause or Resume signal posted last, or "none"

tcp_vars == <<tcp_buffer, on_data_received, on_conn_lost, tcp_received,
              tcp_chunk, tcp_undelivered, stale>>

fn_vars == <<pub_from, pub_envelope, pub_topic, mac_in, mac_out>>

reload_vars == <<reloaded, mqtt_state, http_state, options>>

pipeline_vars ==
    <<version, reader_pc, sampler_pc, publisher_pc, queue, counter, pending,
      transport, mqtt_queue, inflight, reg_timer, pub_timer, arrivals,
      emitted, last_a, reg_count, reg_gap, order, after_failure, warned,
      outcome, last_read>>

vars == <<version, reader_pc, sampler_pc, publisher_pc, queue, counter,
          pending, transport, mqtt_queue, inflight, reg_timer, pub_timer,
          arrivals, emitted, last_a, reg_count, reg_gap, order,
          after_failure, warned, outcome, last_read, monitor_pc, reload_vars,
          tcp_vars, fn_vars, signalled>>

\* ------------------------------------------------------------- messages
\* info.to_dict(): the registration record of a device, a JSON object
\* {name, mac, calib}; two devices never have equal records
RegMessage(d) == [name |-> d, mac |-> "mac"]

\* a reading: the device's a-th line, stamped with seq by the sampler
\* (name is what the line itself says; in the pipeline every device
\* reports the name it is configured with, TopicSpec lets it differ)
Reading(d, a, s) == [name |-> d, a |-> a, seq |-> s]

Envelope(p, m) == [prio |-> p, msg |-> m]

\* --------------------------------------------------------------- heapq
\* Python's (priority, message) < (priority', message'): "lt", "ge", or
\* "err" when the priorities tie and the dicts differ (dict < dict).
TupleLt(x, y) ==
    IF x.prio < y.prio THEN "lt"
    ELSE IF x.prio > y.prio THEN "ge"
    ELSE IF x.msg = y.msg THEN "ge"
    ELSE "err"

Swap(h, i, j) == [h EXCEPT ![i] = h[j], ![j] = h[i]]

\* _heapq siftdown(heap, startpos, pos), positions counted from 1
RECURSIVE SiftDown(_, _, _)
SiftDown(h, startpos, pos) ==
    IF pos <= startpos THEN [h |-> h, err |-> FALSE]
    ELSE LET parentpos == pos \div 2
             cmp == TupleLt(h[pos], h[parentpos])
         IN  IF cmp = "err" THEN [h |-> h, err |-> TRUE]
             ELSE IF cmp = "ge" THEN [h |-> h, err |-> FALSE]
             ELSE SiftDown(Swap(h, pos, parentpos), startpos, parentpos)

\* _heapq siftup(heap, pos): bubble the smaller child up to a leaf, then
\* sift the moved item down from there
RECURSIVE SiftUpFrom(_, _, _)
SiftUpFrom(h, startpos, pos) ==
    IF 2 * pos > Len(h) THEN SiftDown(h, startpos, pos)
    ELSE LET left == 2 * pos
             cmp == IF left + 1 <= Len(h) THEN TupleLt(h[left], h[left + 1])
                    ELSE "lt"
             childpos == IF cmp = "lt" THEN left ELSE left + 1
         IN  IF cmp = "err" THEN [h |-> h, err |-> TRUE]
             ELSE SiftUpFrom(Swap(h, pos, childpos), startpos, childpos)

\* a plain FIFO put, as asyncio.Queue would do it
HeapPushFifo(h, x) == [h |-> Append(h, x), err |-> FALSE]

\* heapq.heappush: append, then sift; on a comparison error the item stays
\* where the sift stopped
HeapPush(h, x) == SiftDown(Append(h, x), 1, Len(h) + 1)

\* heapq.heappop: [h, item, err]; on a comparison error the item that was
\* at the top is gone and nothing is returned
HeapPop(h) ==
    LET n == Len(h)
        lastelt == h[n]
        h1 == SubSeq(h, 1, n - 1)
    IN  IF n = 1 THEN [h |-> h1, item |-> lastelt, err |-> FALSE]
        ELSE LET r == SiftUpFrom([h1 EXCEPT ![1] = lastelt], 1, 1)
             IN  [h |-> r.h, item |-> h[1], err |-> r.err]


\* ------------------------------------------------------- configuration
\* A dict is a function whose domain is the set of keys it holds;
\* d[k] with k missing raises KeyError.
MqttKeys == {"keepalive", "log_level", "protocol_log_level"}
Keepalives == {30, 60}
LevelNames == {"debug", "info"}

\* logger.level(): the numeric level of a level name
level(name) == IF name = "debug" THEN 10 ELSE 20

\* the [mqtt] tables a configuration file may hold: any subset of the keys
MqttOptions ==
    {[k \in K |-> IF k = "keepalive" THEN ka
                  ELSE IF k = "log_level" THEN ll ELSE pl] :
        K \in SUBSET MqttKeys, ka \in Keepalives,
        ll \in LevelNames, pl \in LevelNames}

\* the [http] tables a configuration file may hold
HttpOptions ==
    {[k \in K |-> ll] : K \in SUBSET {"log_level"}, ll \in LevelNames}

\* what tomllib.load() may return: the two sections, or fewer
Configs ==
    {[k \in S |-> IF k = "mqtt" THEN m ELSE h] :
        S \in SUBSET {"mqtt", "http"}, m \in MqttOptions, h \in HttpOptions}

\* a configuration that holds every key a reload reads
Complete(cfg) ==
    /\ DOMAIN cfg = {"mqtt", "http"}
    /\ DOMAIN cfg.mqtt = MqttKeys
    /\ DOMAIN cfg.http = {"log_level"}

\* the configuration cli_main loaded at start-up (client.py:166)
StartOptions ==
    [mqtt |-> [keepalive |-> 60, log_level |-> "info",
               protocol_log_level |-> "info"],
     http |-> [log_level |-> "info"]]

\* the field defaults of mqtt.State (mqtt.py:77-81) and http.State
\* (http.py:52)
MqttDefaults == [keepalive |-> 60, log_level |-> 0, protocol_log_level |-> 0]
HttpDefaults == [log_level |-> 0]

\* mqtt.State.update (mqtt.py:83-90): three assignments, one after the
\* other; a missing key raises KeyError and leaves the earlier ones done.
\* [state, err]
MqttUpdate(st, o) ==
    IF "keepalive" \notin DOMAIN o THEN [state |-> st, err |-> TRUE]
    ELSE LET s1 == [st EXCEPT !.keepalive = o["keepalive"]]
         IN  IF "log_level" \notin DOMAIN o THEN [state |-> s1, err |-> TRUE]
             ELSE LET s2 == [s1 EXCEPT !.log_level = level(o["log_level"])]
                  IN  IF "protocol_log_level" \notin DOMAIN o
                      THEN [state |-> s2, err |-> TRUE]
                      ELSE [state |-> [s2 EXCEPT !.protocol_log_level =
                                          level(o["protocol_log_level"])],
                            err |-> FALSE]

\* http.State.update (http.py:54-56)
HttpUpdate(st, o) ==
    IF "log_level" \notin DOMAIN o THEN [state |-> st, err |-> TRUE]
    ELSE [state |-> [st EXCEPT !.log_level = level(o["log_level"])],
          err |-> FALSE]

\* ------------------------------------------------------------- TCP bytes
Bytes == {"A", "CR", "LF"}

\* TCPProtocol.newline (transport.py:46)
newline == <<"CR", "LF">>

\* the chunks of 1..n bytes
Chunks(n) == UNION {[1..k -> Bytes] : k \in 1..n}

\* bytearray.find(sub): the lowest index where sub starts, counted from 1;
\* 0 when sub does not occur (Python's -1)
Find(buf, sub) ==
    LET hits == {i \in 1..(Len(buf) - Len(sub) + 1) :
                    SubSeq(buf, i, i + Len(sub) - 1) = sub}
    IN  IF hits = {} THEN 0
        ELSE CHOOSE i \in hits : \A j \in hits : i <= j

\* the states of an asyncio.Future as the framer tests them
NoFuture == [st |-> "none", val |-> <<>>]
PendingFuture == [st |-> "pending", val |-> <<>>]
ResultFuture(line) == [st |-> "result", val |-> line]
FailedFuture == [st |-> "exception", val |-> <<>>]

\* ---------------------------------------------------------------- Init
\* Photometer.__init__ (photometer.py:135-150), cli_main (client.py:167-183)
\* and publisher's set-up (mqtt.py:130-144): every task is created and is
\* at its first statement, the queues are empty.
Init ==
    /\ version \in {1, 2}
    /\ reader_pc = [d \in Devices |-> "register"]
    /\ sampler_pc = [d \in Devices |-> "sleep"]
    /\ publisher_pc = "connect"
    /\ queue = [d \in Devices |-> <<>>]
    /\ counter = [d \in Devices |-> 0]
    /\ pending = [d \in Devices |-> <<>>]
    /\ transport = [d \in Devices |-> "closed"]
    /\ mqtt_queue = <<>>
    /\ inflight = <<>>
    /\ reg_timer = [d \in Devices |-> 0]
    /\ pub_timer = 0
    /\ arrivals = [d \in Devices |-> 0]
    /\ emitted = [d \in Devices |-> 0]
    /\ last_a = [d \in Devices |-> 0]
    /\ reg_count = [d \in Devices |-> 0]
    /\ reg_gap = [d \in Devices |-> 0]
    /\ order = <<>>
    /\ after_failure = FALSE
    /\ warned = [d \in Devices |-> FALSE]
    /\ outcome = <<>>
    /\ monitor_pc = "poll"
    /\ reloaded = FALSE
    /\ mqtt_state = MqttUpdate(MqttDefaults, StartOptions.mqtt).state
    /\ http_state = HttpUpdate(HttpDefaults, StartOptions.http).state
    /\ options = StartOptions
    /\ tcp_buffer = <<>>
    /\ on_data_received = NoFuture
    /\ on_conn_lost = FALSE
    /\ tcp_received = 0
    /\ tcp_chunk = <<>>
    /\ tcp_undelivered = <<>>
    /\ stale = <<>>
    /\ last_read = [d \in Devices |-> "none"]
    /\ pub_from = "none"
    /\ pub_envelope = <<>>
    /\ pub_topic = <<>>
    /\ mac_in = <<>>
    /\ mac_out = [ok |-> FALSE, mac |-> <<>>]
    /\ signalled = "none"

\* ------------------------------------------------------------ TaskGroup
ReaderEnded == {"done", "failed_put", "failed_open", "cancelled"}
SamplerEnded == {"done", "cancelled"}
MonitorEnded == {"failed", "cancelled"}

\* asyncio.TaskGroup (client.py:169-183): a task that ends with an
\* exception makes the group cancel every task that is still running.
\* Reader d ends in position pc; all the others are cancelled where they
\* wait, and what they were holding goes with them.
TaskGroupAbort(d, pc) ==
    /\ reader_pc' = [x \in Devices |->
                        IF x = d THEN pc
                        ELSE IF reader_pc[x] \in ReaderEnded THEN reader_pc[x]
                        ELSE "cancelled"]
    /\ sampler_pc' = [x \in Devices |->
                        IF sampler_pc[x] \in SamplerEnded THEN sampler_pc[x]
                        ELSE "cancelled"]
    /\ publisher_pc' = "cancelled"
    /\ monitor_pc' = IF monitor_pc \in MonitorEnded THEN monitor_pc
                     ELSE "cancelled"
    /\ pending' = [x \in Devices |-> <<>>]
    /\ inflight' = <<>>
    /\ reg_timer' = [x \in Devices |-> 0]
    /\ pub_timer' = 0

\* ----------------------------------------------------- queue bookkeeping
\* a queue made with maxsize=0 is never full
FullNever == FALSE

\* asyncio.Queue.full(): maxsize > 0 and qsize() >= maxsize
Full == Len(mqtt_queue) >= QSize

\* history: e joins the enqueue order
Enqueued(e) == order' = Append(order, e)

\* history: the oldest entry of e leaves the enqueue order
FirstOf(e) == CHOOSE i \in 1..Len(order) :
                /\ order[i] = e
                /\ \A j \in 1..(i - 1) : order[j] # e
Without(e) == LET i == FirstOf(e)
              IN  SubSeq(order, 1, i - 1) \o SubSeq(order, i + 1, Len(order))

\* ------------------------------------------------------------- register
\* a reader that does not wait for register(): it goes on to its loop
\* with nothing enqueued
RegisterSkipped(d) ==
    /\ reader_pc[d] = "register"
    /\ reader_pc' = [reader_pc EXCEPT ![d] =
                         IF version = 1 THEN "read" ELSE "open"]
    /\ UNCHANGED <<tcp_vars, reload_vars, fn_vars, signalled, last_read, monitor_pc, version,
                   sampler_pc, publisher_pc, queue, counter, pending,
                   transport, mqtt_queue, inflight, reg_timer, pub_timer,
                   arrivals, emitted, last_a, reg_count, reg_gap, order,
                   after_failure, warned, outcome>>

\* Photometer.register, first put (photometer.py:153-154).  put() waits
\* while the queue is full.  A TypeError from the heap leaves register()
\* and reader() (neither catches it), so the task group is aborted.
RegisterFirst(d) ==
    /\ reader_pc[d] = "register"
    /\ ~Full
    /\ LET e == Envelope(MQTT_REGISTER, RegMessage(d))
           r == HeapPush(mqtt_queue, e)
       IN  /\ mqtt_queue' = r.h
           /\ Enqueued(e)
           /\ reg_count' = [reg_count EXCEPT ![d] = @ + 1]
           /\ IF r.err
              THEN /\ TaskGroupAbort(d, "failed_put")
              ELSE /\ reader_pc' = [reader_pc EXCEPT ![d] = "sleep"]
                   /\ reg_timer' = [reg_timer EXCEPT ![d] = RegisterDelay]
                   /\ UNCHANGED <<sampler_pc, publisher_pc, pending, inflight,
                                  pub_timer, monitor_pc>>
    /\ UNCHANGED <<tcp_vars, reload_vars, fn_vars, signalled, last_read, version, queue, counter, transport, arrivals, emitted,
                   last_a, reg_gap, after_failure, warned, outcome>>

\* Photometer.register, second put of the same message after the sleep
\* (photometer.py:155-156), then reader() goes on: the version 1 reader
\* enters its read loop (photometer.py:80), the version 2 reader enters
\* `async with self` (photometer.py:181).
RegisterSecond(d) ==
    /\ reader_pc[d] = "sleep"
    /\ reg_timer[d] = 0
    /\ ~Full
    /\ LET e == Envelope(MQTT_REGISTER, RegMessage(d))
           r == HeapPush(mqtt_queue, e)
       IN  /\ mqtt_queue' = r.h
           /\ Enqueued(e)
           /\ reg_count' = [reg_count EXCEPT ![d] = @ + 1]
           /\ IF r.err
              THEN /\ TaskGroupAbort(d, "failed_put")
              ELSE /\ reader_pc' = [reader_pc EXCEPT ![d] =
                                       IF version = 1 THEN "read" ELSE "open"]
                   /\ UNCHANGED <<sampler_pc, publisher_pc, pending, inflight,
                                  reg_timer, pub_timer, monitor_pc>>
    /\ UNCHANGED <<tcp_vars, reload_vars, fn_vars, signalled, last_read, version, queue, counter, transport, arrivals, emitted,
                   last_a, reg_gap, after_failure, warned, outcome>>

\* --------------------------------------------------------------- reader
RECURSIVE SumOver(_, _)
SumOver(f, S) == IF S = {} THEN 0
                 ELSE LET x == CHOOSE y \in S : TRUE
                      IN  f[x] + SumOver(f, S \ {x})

\* the environment: readings the devices have delivered so far
Delivered == SumOver(arrivals, Devices)

\* the append of a deque without maxlen: nothing is discarded
ReadLineUnbounded(d) ==
    /\ version = 1
    /\ reader_pc[d] = "read"
    /\ Delivered < MaxArrivals
    /\ arrivals' = [arrivals EXCEPT ![d] = @ + 1]
    /\ queue' = [queue EXCEPT ![d] = Append(@, arrivals[d] + 1)]
    /\ last_read' = [last_read EXCEPT ![d] = "object"]
    /\ UNCHANGED <<tcp_vars, reload_vars, fn_vars, signalled, monitor_pc, version, reader_pc, sampler_pc, publisher_pc, counter,
                   pending, transport, mqtt_queue, inflight, reg_timer,
                   pub_timer, emitted, last_a, reg_count, reg_gap, order,
                   after_failure, warned, outcome>>

\* a one-slot buffer that keeps what it holds and discards the newcomer
ReadLineKeepOld(d) ==
    /\ version = 1
    /\ reader_pc[d] = "read"
    /\ Delivered < MaxArrivals
    /\ arrivals' = [arrivals EXCEPT ![d] = @ + 1]
    /\ queue' = [queue EXCEPT ![d] =
                     IF Len(@) = 0 THEN <<arrivals[d] + 1>> ELSE @]
    /\ last_read' = [last_read EXCEPT ![d] = "object"]
    /\ UNCHANGED <<tcp_vars, reload_vars, fn_vars, signalled, monitor_pc, version, reader_pc, sampler_pc, publisher_pc, counter,
                   pending, transport, mqtt_queue, inflight, reg_timer,
                   pub_timer, emitted, last_a, reg_count, reg_gap, order,
                   after_failure, warned, outcome>>

\* a reader that starts its loop again after the error that ended it
ReadLineRestarts(d) ==
    /\ version = 1
    /\ reader_pc[d] \in {"read", "done"}
    /\ Delivered < MaxArrivals
    /\ reader_pc' = [reader_pc EXCEPT ![d] = "read"]
    /\ arrivals' = [arrivals EXCEPT ![d] = @ + 1]
    /\ queue' = [queue EXCEPT ![d] = <<arrivals[d] + 1>>]
    /\ last_read' = [last_read EXCEPT ![d] = "object"]
    /\ UNCHANGED <<tcp_vars, reload_vars, fn_vars, signalled, monitor_pc, version,
                   sampler_pc, publisher_pc, counter, pending, transport,
                   mqtt_queue, inflight, reg_timer, pub_timer, emitted,
                   last_a, reg_count, reg_gap, order, after_failure, warned,
                   outcome>>

\* version 1, photometer.py:82-84: read() returned a JSON object; append
\* to the deque(maxlen=1), which discards what it held
ReadLine(d) ==
    /\ version = 1
    /\ reader_pc[d] = "read"
    /\ Delivered < MaxArrivals
    /\ arrivals' = [arrivals EXCEPT ![d] = @ + 1]
    /\ queue' = [queue EXCEPT ![d] = <<arrivals[d] + 1>>]
    /\ last_read' = [last_read EXCEPT ![d] = "object"]
    /\ UNCHANGED <<tcp_vars, reload_vars, fn_vars, signalled, monitor_pc, version, reader_pc, sampler_pc, publisher_pc, counter,
                   pending, transport, mqtt_queue, inflight, reg_timer,
                   pub_timer, emitted, last_a, reg_count, reg_gap, order,
                   after_failure, warned, outcome>>

\* the lines read() turns into None: "invalid" makes json.loads raise
\* JSONDecodeError (photometer.py:66-69), "array" parses to something that
\* is not a dict (photometer.py:71)
Discarded == {"invalid", "array"}

\* a reader that leaves its loop on a line it cannot use
ReadDiscardBreaks(d, line) ==
    /\ version = 1
    /\ reader_pc[d] = "read"
    /\ line \in Discarded
    /\ last_read' = [last_read EXCEPT ![d] = line]
    /\ reader_pc' = [reader_pc EXCEPT ![d] = "done"]
    /\ UNCHANGED <<tcp_vars, reload_vars, fn_vars, signalled, monitor_pc, version,
                   sampler_pc, publisher_pc, queue, counter, pending,
                   transport, mqtt_queue, inflight, reg_timer, pub_timer,
                   arrivals, emitted, last_a, reg_count, reg_gap, order,
                   after_failure, warned, outcome>>

\* version 1, photometer.py:64-75 and 81-84: read() returns None for such a
\* line, `if message:` is false and the loop goes round
ReadDiscard(d, line) ==
    /\ version = 1
    /\ reader_pc[d] = "read"
    /\ line \in Discarded
    /\ last_read' = [last_read EXCEPT ![d] = line]
    /\ UNCHANGED <<tcp_vars, reload_vars, fn_vars, signalled, monitor_pc, version,
                   reader_pc, sampler_pc, publisher_pc, queue, counter, pending,
                   transport, mqtt_queue, inflight, reg_timer, pub_timer,
                   arrivals, emitted, last_a, reg_count, reg_gap, order,
                   after_failure, warned, outcome>>

\* a read error that takes the device's sampler down with the reader
ReadErrorStopsSampler(d) ==
    /\ version = 1
    /\ reader_pc[d] = "read"
    /\ reader_pc' = [reader_pc EXCEPT ![d] = "done"]
    /\ sampler_pc' = [sampler_pc EXCEPT ![d] = "done"]
    /\ UNCHANGED <<tcp_vars, reload_vars, fn_vars, signalled, last_read, monitor_pc,
                   version, publisher_pc, queue, counter, pending, transport,
                   mqtt_queue, inflight, reg_timer, pub_timer, arrivals,
                   emitted, last_a, reg_count, reg_gap, order, after_failure,
                   warned, outcome>>

\* version 1, photometer.py:85-90: read() raised (serial error, connection
\* lost); the error is logged and the loop is left
ReadError(d) ==
    /\ version = 1
    /\ reader_pc[d] = "read"
    /\ reader_pc' = [reader_pc EXCEPT ![d] = "done"]
    /\ UNCHANGED <<tcp_vars, reload_vars, fn_vars, signalled, last_read, monitor_pc, version, sampler_pc, publisher_pc, queue, counter,
                   pending, transport, mqtt_queue, inflight, reg_timer,
                   pub_timer, arrivals, emitted, last_a, reg_count, reg_gap,
                   order, after_failure, warned, outcome>>

\* version 2, photometer.py:181 and 158-165: __aenter__ opens the transport
OpenOk(d) ==
    /\ version = 2
    /\ reader_pc[d] = "open"
    /\ transport' = [transport EXCEPT ![d] = "open"]
    /\ reader_pc' = [reader_pc EXCEPT ![d] = "readings"]
    /\ UNCHANGED <<tcp_vars, reload_vars, fn_vars, signalled, last_read, monitor_pc, version, sampler_pc, publisher_pc, queue, counter,
                   pending, mqtt_queue, inflight, reg_timer, pub_timer,
                   arrivals, emitted, last_a, reg_count, reg_gap, order,
                   after_failure, warned, outcome>>

\* version 2: transport.open() raises (transport.py:18-23, 62-66); nothing
\* in reader() catches it, so the task group is aborted
OpenFail(d) ==
    /\ version = 2
    /\ reader_pc[d] = "open"
    /\ TaskGroupAbort(d, "failed_open")
    /\ UNCHANGED <<tcp_vars, reload_vars, fn_vars, signalled, last_read, version, queue, counter, transport, mqtt_queue, arrivals,
                   emitted, last_a, reg_count, reg_gap, order, after_failure,
                   warned, outcome>>

\* version 2, photometer.py:182 and 124-131: PhotometerReadings.__anext__
\* raises StopAsyncIteration at once, the loop body never runs, __aexit__
\* (photometer.py:167-176) returns without closing and reader() returns
ReadingsEnd(d) ==
    /\ version = 2
    /\ reader_pc[d] = "readings"
    /\ reader_pc' = [reader_pc EXCEPT ![d] = "done"]
    /\ UNCHANGED <<tcp_vars, reload_vars, fn_vars, signalled, last_read, monitor_pc, version, sampler_pc, publisher_pc, queue, counter,
                   pending, transport, mqtt_queue, inflight, reg_timer,
                   pub_timer, arrivals, emitted, last_a, reg_count, reg_gap,
                   order, after_failure, warned, outcome>>

\* -------------------------------------------------------------- sampler
\* Photometer.sampler, a tick that finds a reading (photometer.py:191-197):
\* pop it, stamp seq, count, and put the envelope.  With room in the queue
\* put() completes within the tick; a TypeError from the heap is caught at
\* photometer.py:200-202 and ends the loop.  With a full queue the sampler
\* stays suspended in put(), holding the envelope.
SamplerEmit(d) ==
    /\ sampler_pc[d] = "sleep"
    /\ Len(queue[d]) > 0
    /\ LET a == queue[d][Len(queue[d])]
           e == Envelope(MQTT_READINGS, Reading(d, a, counter[d]))
           r == HeapPush(mqtt_queue, e)
       IN  /\ queue' = [queue EXCEPT ![d] = SubSeq(@, 1, Len(@) - 1)]
           /\ counter' = [counter EXCEPT ![d] = @ + 1]
           /\ last_a' = [last_a EXCEPT ![d] = a]
           /\ IF Full
              THEN /\ pending' = [pending EXCEPT ![d] = <<e>>]
                   /\ sampler_pc' = [sampler_pc EXCEPT ![d] = "put"]
                   /\ UNCHANGED <<mqtt_queue, order, emitted>>
              ELSE /\ mqtt_queue' = r.h
                   /\ Enqueued(e)
                   /\ emitted' = [emitted EXCEPT ![d] = @ + 1]
                   /\ sampler_pc' = [sampler_pc EXCEPT ![d] =
                                        IF r.err THEN "done" ELSE "sleep"]
                   /\ UNCHANGED pending
    /\ warned' = [warned EXCEPT ![d] = FALSE]
    /\ UNCHANGED <<tcp_vars, reload_vars, fn_vars, signalled, last_read, monitor_pc, version, reader_pc, publisher_pc, transport, inflight,
                   reg_timer, pub_timer, arrivals, reg_count, reg_gap,
                   after_failure, outcome>>

\* the suspended put() of photometer.py:197 completes once there is room
SamplerPut(d) ==
    /\ sampler_pc[d] = "put"
    /\ ~Full
    /\ LET e == pending[d][1]
           r == HeapPush(mqtt_queue, e)
       IN  /\ mqtt_queue' = r.h
           /\ Enqueued(e)
           /\ emitted' = [emitted EXCEPT ![d] = @ + 1]
           /\ sampler_pc' = [sampler_pc EXCEPT ![d] =
                                IF r.err THEN "done" ELSE "sleep"]
    /\ pending' = [pending EXCEPT ![d] = <<>>]
    /\ UNCHANGED <<tcp_vars, reload_vars, fn_vars, signalled, last_read, monitor_pc, version, reader_pc, publisher_pc, queue, counter,
                   transport, inflight, reg_timer, pub_timer, arrivals,
                   last_a, reg_count, reg_gap, after_failure, warned, outcome>>

\* an empty tick that counts as an emitted sample
SamplerMissingCounts(d) ==
    /\ sampler_pc[d] = "sleep"
    /\ Len(queue[d]) = 0
    /\ warned' = [warned EXCEPT ![d] = TRUE]
    /\ counter' = [counter EXCEPT ![d] = @ + 1]
    /\ UNCHANGED <<tcp_vars, reload_vars, fn_vars, signalled, last_read, monitor_pc, version, reader_pc, sampler_pc, publisher_pc, queue,
                   pending, transport, mqtt_queue, inflight, reg_timer,
                   pub_timer, arrivals, emitted, last_a, reg_count, reg_gap,
                   order, after_failure, outcome>>

\* an empty tick that is treated as an error and ends the loop
SamplerMissingBreaks(d) ==
    /\ sampler_pc[d] = "sleep"
    /\ Len(queue[d]) = 0
    /\ warned' = [warned EXCEPT ![d] = TRUE]
    /\ sampler_pc' = [sampler_pc EXCEPT ![d] = "done"]
    /\ UNCHANGED <<tcp_vars, reload_vars, fn_vars, signalled, last_read, monitor_pc, version, reader_pc, publisher_pc, queue, counter,
                   pending, transport, mqtt_queue, inflight, reg_timer,
                   pub_timer, arrivals, emitted, last_a, reg_count, reg_gap,
                   order, after_failure, outcome>>

\* Photometer.sampler, a tick that finds the slot empty
\* (photometer.py:192, 198-199): only the warning is logged
SamplerMissing(d) ==
    /\ sampler_pc[d] = "sleep"
    /\ Len(queue[d]) = 0
    /\ warned' = [warned EXCEPT ![d] = TRUE]
    /\ UNCHANGED <<tcp_vars, reload_vars, fn_vars, signalled, last_read, monitor_pc, version, reader_pc, sampler_pc, publisher_pc, queue,
                   counter, pending, transport, mqtt_queue, inflight,
                   reg_timer, pub_timer, arrivals, emitted, last_a,
                   reg_count, reg_gap, order, after_failure, outcome>>

\* ------------------------------------------------------------ publisher
\* mqtt.py:147, `async with client` connects
Connect ==
    /\ publisher_pc = "connect"
    /\ publisher_pc' = "get"
    /\ outcome' = <<>>
    /\ UNCHANGED <<tcp_vars, reload_vars, fn_vars, signalled, last_read, monitor_pc, version, reader_pc, sampler_pc, queue, counter, pending,
                   transport, mqtt_queue, inflight, reg_timer, pub_timer,
                   arrivals, emitted, last_a, reg_count, reg_gap, order,
                   after_failure, warned>>

\* a publisher that takes the envelope first and connects afterwards: the
\* failed attempt has already consumed the top of the queue
ConnectFailDrops ==
    /\ publisher_pc = "connect"
    /\ publisher_pc' = "backoff"
    /\ pub_timer' = interval
    /\ after_failure' = (after_failure \/ mqtt_queue = <<>>)
    /\ outcome' = <<>>
    /\ IF mqtt_queue = <<>>
       THEN UNCHANGED <<mqtt_queue, order>>
       ELSE /\ mqtt_queue' = HeapPop(mqtt_queue).h
            /\ order' = Without(HeapPop(mqtt_queue).item)
    /\ UNCHANGED <<tcp_vars, reload_vars, fn_vars, signalled, last_read, monitor_pc,
                   version, reader_pc, sampler_pc, queue, counter, pending,
                   transport, inflight, reg_timer, arrivals, emitted, last_a,
                   reg_count, reg_gap, warned>>

\* mqtt.py:147, 154-156: connecting raises MqttError; log and sleep
ConnectFail ==
    /\ publisher_pc = "connect"
    /\ publisher_pc' = "backoff"
    /\ pub_timer' = interval
    /\ after_failure' = (after_failure \/ mqtt_queue = <<>>)
    /\ outcome' = <<>>
    /\ UNCHANGED <<tcp_vars, reload_vars, fn_vars, signalled, last_read, monitor_pc, version, reader_pc, sampler_pc, queue, counter, pending,
                   transport, mqtt_queue, inflight, reg_timer, arrivals,
                   emitted, last_a, reg_count, reg_gap, order, warned>>

\* mqtt.py:148, `await queue.get()` with an envelope available: heappop.
\* A TypeError from the heap is caught at mqtt.py:157-159 after
\* `async with` has closed the connection; the loop starts over.
Get ==
    /\ publisher_pc = "get"
    /\ Len(mqtt_queue) > 0
    /\ LET r == HeapPop(mqtt_queue)
       IN  /\ mqtt_queue' = r.h
           /\ order' = Without(r.item)
           /\ IF r.err
              THEN /\ publisher_pc' = "connect"
                   /\ outcome' = <<"error">>
                   /\ UNCHANGED inflight
              ELSE /\ publisher_pc' = "publish"
                   /\ inflight' = <<r.item>>
                   /\ UNCHANGED outcome
    /\ UNCHANGED <<tcp_vars, reload_vars, fn_vars, signalled, last_read, monitor_pc, version, reader_pc, sampler_pc, queue, counter, pending,
                   transport, reg_timer, pub_timer, arrivals, emitted,
                   last_a, reg_count, reg_gap, after_failure, warned>>

\* mqtt.py:149-153: client.publish() returns; `async with` disconnects and
\* the loop starts over
PublishOk ==
    /\ publisher_pc = "publish"
    /\ publisher_pc' = "connect"
    /\ outcome' = <<"published">>
    /\ inflight' = <<>>
    /\ UNCHANGED <<tcp_vars, reload_vars, fn_vars, signalled, last_read, monitor_pc, version, reader_pc, sampler_pc, queue, counter, pending,
                   transport, mqtt_queue, reg_timer, pub_timer, arrivals,
                   emitted, last_a, reg_count, reg_gap, order, after_failure,
                   warned>>

\* a publisher that puts the envelope back when the publish fails
PublishFailRequeue ==
    /\ publisher_pc = "publish"
    /\ ~Full
    /\ publisher_pc' = "backoff"
    /\ pub_timer' = interval
    /\ after_failure' = (after_failure \/ mqtt_queue = <<>>)
    /\ outcome' = <<"broker">>
    /\ mqtt_queue' = HeapPush(mqtt_queue, inflight[1]).h
    /\ Enqueued(inflight[1])
    /\ inflight' = <<>>
    /\ UNCHANGED <<tcp_vars, reload_vars, fn_vars, signalled, last_read, monitor_pc, version, reader_pc, sampler_pc, queue, counter, pending,
                   transport, reg_timer, arrivals, emitted, last_a,
                   reg_count, reg_gap, warned>>

\* mqtt.py:149-156: client.publish() raises MqttError; `async with` closes
\* the connection, the envelope is forgotten, log and sleep
PublishFail ==
    /\ publisher_pc = "publish"
    /\ publisher_pc' = "backoff"
    /\ pub_timer' = interval
    /\ after_failure' = (after_failure \/ mqtt_queue = <<>>)
    /\ outcome' = <<"broker">>
    /\ inflight' = <<>>
    /\ UNCHANGED <<tcp_vars, reload_vars, fn_vars, signalled, last_read, monitor_pc, version, reader_pc, sampler_pc, queue, counter, pending,
                   transport, mqtt_queue, reg_timer, arrivals, emitted,
                   last_a, reg_count, reg_gap, order, warned>>

\* mqtt.py:156, 145: the sleep is over, next iteration
BackoffEnd ==
    /\ publisher_pc = "backoff"
    /\ pub_timer = 0
    /\ publisher_pc' = "connect"
    /\ UNCHANGED <<tcp_vars, reload_vars, fn_vars, signalled, last_read, monitor_pc, version, reader_pc, sampler_pc, queue, counter, pending,
                   transport, mqtt_queue, inflight, reg_timer, pub_timer,
                   arrivals, emitted, last_a, reg_count, reg_gap, order,
                   after_failure, warned, outcome>>

\* ----------------------------------------------------------------- time
Dec(t) == IF t > 0 THEN t - 1 ELSE 0

\* one second passes for every asyncio.sleep in progress
\* (photometer.py:155, mqtt.py:156)
Tick ==
    /\ pub_timer > 0 \/ \E d \in Devices : reg_timer[d] > 0
    /\ reg_timer' = [d \in Devices |-> Dec(reg_timer[d])]
    /\ pub_timer' = Dec(pub_timer)
    /\ reg_gap' = [d \in Devices |->
                      IF reader_pc[d] = "sleep" /\ reg_gap[d] < RegisterDelay
                      THEN reg_gap[d] + 1 ELSE reg_gap[d]]
    /\ UNCHANGED <<tcp_vars, reload_vars, fn_vars, signalled, last_read, monitor_pc, version, reader_pc, sampler_pc, publisher_pc, queue,
                   counter, pending, transport, mqtt_queue, inflight,
                   arrivals, emitted, last_a, reg_count, order, after_failure,
                   warned, outcome>>

\* ---------------------------------------------------------------- Next
Next ==
    \/ \E d \in Devices : RegisterFirst(d)
    \/ \E d \in Devices : RegisterSecond(d)
    \/ \E d \in Devices : ReadLine(d)
    \/ \E d \in Devices : ReadError(d)
    \/ \E d \in Devices : OpenOk(d)
    \/ \E d \in Devices : OpenFail(d)
    \/ \E d \in Devices : ReadingsEnd(d)
    \/ \E d \in Devices : SamplerEmit(d)
    \/ \E d \in Devices : SamplerPut(d)
    \/ \E d \in Devices : SamplerMissing(d)
    \/ Connect
    \/ ConnectFail
    \/ Get
    \/ PublishOk
    \/ PublishFail
    \/ BackoffEnd
    \/ Tick

Spec == Init /\ [][Next]_vars

\* the devices' tasks, with devices that also send lines that are not JSON
\* objects, in front of a publisher whose broker accepts everything
DeviceNext ==
    \/ \E d \in Devices : RegisterFirst(d)
    \/ \E d \in Devices : RegisterSecond(d)
    \/ \E d \in Devices : ReadLine(d)
    \/ \E d \in Devices, line \in Discarded : ReadDiscard(d, line)
    \/ \E d \in Devices : ReadError(d)
    \/ \E d \in Devices : OpenOk(d)
    \/ \E d \in Devices : OpenFail(d)
    \/ \E d \in Devices : ReadingsEnd(d)
    \/ \E d \in Devices : SamplerEmit(d)
    \/ \E d \in Devices : SamplerPut(d)
    \/ \E d \in Devices : SamplerMissing(d)
    \/ Connect
    \/ Get
    \/ PublishOk
    \/ Tick

DeviceSpec == Init /\ [][DeviceNext]_vars

\* The asyncio event loop runs every task that is ready: a step of the
\* program that stays possible is taken.  What the environment decides (a
\* line or an error from a device, the broker refusing) is under no such
\* obligation.
FairSpec ==
    /\ Spec
    /\ WF_vars(Connect)
    /\ WF_vars(Get)
    /\ WF_vars(PublishOk)
    /\ WF_vars(BackoffEnd)
    /\ WF_vars(Tick)
    /\ \A d \in Devices :
          /\ WF_vars(RegisterFirst(d))
          /\ WF_vars(RegisterSecond(d))
          /\ WF_vars(OpenOk(d))
          /\ WF_vars(ReadingsEnd(d))
          /\ WF_vars(SamplerEmit(d))
          /\ WF_vars(SamplerPut(d))
          /\ WF_vars(SamplerMissing(d))

\* ------------------------------------------------------- reload monitor
\* client.on_client_reload (client.py:88-89), run by SIGHUP
\* (client.py:74-75) or by POST /v1/client/reload (http.py:110-114)
OnClientReload ==
    /\ reloaded' = TRUE
    /\ UNCHANGED <<pipeline_vars, fn_vars, signalled, tcp_vars, monitor_pc, mqtt_state,
                   http_state, options>>

\* reload_monitor, the test of the flag (client.py:113-117): a request
\* clears the flag and starts reading the file, otherwise sleep
MonitorPoll ==
    /\ monitor_pc = "poll"
    /\ IF reloaded
       THEN /\ reloaded' = FALSE
            /\ monitor_pc' = "load"
       ELSE /\ monitor_pc' = "sleep"
            /\ UNCHANGED reloaded
    /\ UNCHANGED <<pipeline_vars, fn_vars, signalled, tcp_vars, mqtt_state, http_state, options>>

\* asyncio.TaskGroup (client.py:169-187): reload_monitor ends with an
\* exception, so the group cancels every task that is still running
MonitorAbort ==
    /\ monitor_pc' = "failed"
    /\ reader_pc' = [x \in Devices |->
                        IF reader_pc[x] \in ReaderEnded THEN reader_pc[x]
                        ELSE "cancelled"]
    /\ sampler_pc' = [x \in Devices |->
                        IF sampler_pc[x] \in SamplerEnded THEN sampler_pc[x]
                        ELSE "cancelled"]
    /\ publisher_pc' = "cancelled"
    /\ pending' = [x \in Devices |-> <<>>]
    /\ inflight' = <<>>
    /\ reg_timer' = [x \in Devices |-> 0]
    /\ pub_timer' = 0

\* reload_monitor, from the return of reload_file to the sleep
\* (client.py:117-120): options["mqtt"] goes to mqtt's reload handler
\* (mqtt.py:116-118), options["http"] to http's (http.py:70-72), with no
\* suspension point between.  A KeyError, from options[...] or from a
\* State.update, leaves reload_monitor.
ReloadApply(cfg) ==
    /\ monitor_pc = "load"
    /\ options' = cfg
    /\ LET m == IF "mqtt" \in DOMAIN cfg
                THEN MqttUpdate(mqtt_state, cfg["mqtt"])
                ELSE [state |-> mqtt_state, err |-> TRUE]
           h == IF m.err THEN [state |-> http_state, err |-> TRUE]
                ELSE IF "http" \in DOMAIN cfg
                THEN HttpUpdate(http_state, cfg["http"])
                ELSE [state |-> http_state, err |-> TRUE]
       IN  /\ mqtt_state' = m.state
           /\ http_state' = h.state
           /\ IF h.err
              THEN /\ MonitorAbort
                   /\ UNCHANGED <<version, queue, counter, transport,
                                  last_read, mqtt_queue, arrivals, emitted,
                                  last_a,
                                  reg_count, reg_gap, order, after_failure,
                                  warned, outcome>>
              ELSE /\ monitor_pc' = "sleep"
                   /\ UNCHANGED pipeline_vars
    /\ UNCHANGED <<tcp_vars, fn_vars, signalled, reloaded>>

\* reload_monitor, asyncio.sleep(1) is over (client.py:120, 113)
MonitorWake ==
    /\ monitor_pc = "sleep"
    /\ monitor_pc' = "poll"
    /\ UNCHANGED <<pipeline_vars, fn_vars, signalled, tcp_vars, reload_vars>>

ReloadNext ==
    \/ OnClientReload
    \/ MonitorPoll
    \/ \E cfg \in Configs : ReloadApply(cfg)
    \/ MonitorWake

\* the reload monitor on its own: the tasks of the pipeline stay where
\* they are unless the task group cancels them
ReloadSpec == Init /\ [][ReloadNext]_vars

\* The event loop runs reload_monitor whenever it is ready, its sleep ends
\* and the executor's read of the file returns.  Requests come from
\* outside and are under no obligation.
ReloadFairSpec ==
    /\ ReloadSpec
    /\ WF_vars(MonitorPoll)
    /\ WF_vars(MonitorWake)
    /\ WF_vars(\E cfg \in Configs : ReloadApply(cfg))

\* the reload monitor beside a publisher that has envelopes to publish:
\* each device's first Register, a broker that accepts everything
PublishReloadNext ==
    \/ ReloadNext
    \/ \E d \in Devices : RegisterFirst(d)
    \/ Connect
    \/ Get
    \/ PublishOk

PublishReloadSpec == Init /\ [][PublishReloadNext]_vars

\* ----------------------------------------------------------- TCP framer
\* an __anext__ that leaves an unresolved wait as it is
NextLineKeepsOld ==
    /\ Len(stale) < MaxCalls
    /\ on_data_received' = PendingFuture
    /\ stale' = IF on_data_received.st = "none" THEN stale
                ELSE Append(stale, on_data_received.st)
    /\ UNCHANGED <<pipeline_vars, fn_vars, signalled, monitor_pc, reload_vars, tcp_buffer,
                   on_conn_lost, tcp_received, tcp_chunk, tcp_undelivered>>

\* TCPProtocol.__anext__ (transport.py:75-79): cancel a wait that has not
\* resolved, make a new future and wait on it
NextLine ==
    /\ Len(stale) < MaxCalls
    /\ on_data_received' = PendingFuture
    /\ stale' = IF on_data_received.st = "none" THEN stale
                ELSE IF on_data_received.st = "pending"
                THEN Append(stale, "cancelled")
                ELSE Append(stale, on_data_received.st)
    /\ UNCHANGED <<pipeline_vars, fn_vars, signalled, monitor_pc, reload_vars, tcp_buffer,
                   on_conn_lost, tcp_received, tcp_chunk, tcp_undelivered>>

\* the loop of data_received (transport.py:90-105) on buffer buf with the
\* caller's future fut: [buf, fut] when the loop is left
RECURSIVE DataLoop(_, _)
DataLoop(buf, fut) ==
    LET idx == Find(buf, newline)
        line == SubSeq(buf, 1, idx + Len(newline) - 1)
    IN  IF idx = 0 THEN [buf |-> buf, fut |-> fut]
        ELSE IF fut.st = "pending"
             THEN [buf |-> <<>>, fut |-> ResultFuture(line)]
             ELSE DataLoop(<<>>, fut)

\* the bytes of s that follow its first line
AfterLine(s) ==
    SubSeq(s, Find(s, newline) + Len(newline), Len(s))

\* the first line of s, through the delimiter
FirstLine(s) == SubSeq(s, 1, Find(s, newline) + Len(newline) - 1)

\* TCPProtocol.data_received (transport.py:86-105) with one chunk from
\* the socket; never called once the connection is lost
DataReceived(chunk) ==
    /\ ~on_conn_lost
    /\ tcp_received + Len(chunk) <= MaxBytes
    /\ LET r == DataLoop(tcp_buffer \o chunk, on_data_received)
           got == r.fut # on_data_received
           und == tcp_undelivered \o chunk
       IN  /\ tcp_buffer' = r.buf
           /\ on_data_received' = r.fut
           /\ tcp_undelivered' = IF got THEN AfterLine(und) ELSE und
    /\ tcp_received' = tcp_received + Len(chunk)
    /\ tcp_chunk' = chunk
    /\ UNCHANGED <<pipeline_vars, fn_vars, signalled, monitor_pc, reload_vars, on_conn_lost,
                   stale>>

\* a connection_lost that only records the loss
ConnectionLostSilent ==
    /\ ~on_conn_lost
    /\ on_conn_lost' = TRUE
    /\ UNCHANGED <<pipeline_vars, fn_vars, signalled, monitor_pc, reload_vars, tcp_buffer,
                   on_data_received, tcp_received, tcp_chunk,
                   tcp_undelivered, stale>>

\* TCPProtocol.connection_lost (transport.py:107-118)
ConnectionLost ==
    /\ ~on_conn_lost
    /\ on_conn_lost' = TRUE
    /\ on_data_received' = IF on_data_received.st = "pending"
                           THEN FailedFuture ELSE on_data_received
    /\ UNCHANGED <<pipeline_vars, fn_vars, signalled, monitor_pc, reload_vars, tcp_buffer,
                   tcp_received, tcp_chunk, tcp_undelivered, stale>>

TcpNext ==
    \/ NextLine
    \/ \E chunk \in Chunks(MaxBytes) : DataReceived(chunk)
    \/ ConnectionLost

\* one TCPProtocol object with its caller and its socket
TcpSpec == Init /\ [][TcpNext]_vars

\* --------------------------------------------------- the publish topic
\* what a device may send as the "name" of a reading: its own configured
\* name, another device's, or a name no device is configured with
ReportedNames == Devices \cup {"stars9"}
Freqs == {"0.0", "1.5"}

\* the dicts a sampler may enqueue: the JSON object the device sent, with
\* tstamp (photometer.py:73) and seq (photometer.py:194) put in; a device
\* may send no "name" at all
Items ==
    {[k \in {"name", "freq", "tstamp", "seq"} |->
         IF k = "name" THEN n ELSE IF k = "freq" THEN f
         ELSE IF k = "tstamp" THEN "t" ELSE q] :
        n \in ReportedNames, f \in Freqs, q \in 0..MaxSeq}
    \cup
    {[k \in {"freq", "tstamp", "seq"} |->
         IF k = "freq" THEN f ELSE IF k = "tstamp" THEN "t" ELSE q] :
        f \in Freqs, q \in 0..MaxSeq}

\* the envelopes the tasks of device d put in the queue
\* (photometer.py:154, 156, 197)
EnvelopesOf(d) ==
    {Envelope(MQTT_REGISTER, RegMessage(d))}
    \cup {Envelope(MQTT_READINGS, item) : item \in Items}

\* the topics, as their segments between the slashes
RegisterTopic == <<"STARS4ALL", "register">>
ReadingTopic(name) == <<"STARS4ALL", name, "reading">>

\* mqtt.py:148-153 for one envelope: <<topic>> published to, or <<>> when
\* item["name"] raises KeyError and nothing is published
TopicOf(e) ==
    IF e.prio = MQTT_REGISTER THEN <<RegisterTopic>>
    ELSE IF "name" \in DOMAIN e.msg THEN <<ReadingTopic(e.msg["name"])>>
    ELSE <<>>

\* the publisher dequeues and publishes an envelope that a task of device
\* d enqueued
PublishEnvelope(d, e) ==
    /\ pub_from' = d
    /\ pub_envelope' = <<e>>
    /\ pub_topic' = TopicOf(e)
    /\ UNCHANGED <<pipeline_vars, monitor_pc, reload_vars, tcp_vars, mac_in,
                   mac_out, signalled>>

TopicNext == \E d \in Devices : \E e \in EnvelopesOf(d) : PublishEnvelope(d, e)

\* the publisher's choice of topic, for every envelope a device can enqueue
TopicSpec == Init /\ [][TopicNext]_vars

\* ------------------------------------------- the publisher and its items
\* the readings tried: one per reported name and one without "name"
HandleItems == {item \in Items : item["freq"] = "0.0" /\ item["seq"] = 0}

\* a sampler of device d puts the reading its device sent
\* (photometer.py:193-197); a TypeError from the heap ends the sampler
\* (photometer.py:200-202)
PutItem(d, item) ==
    /\ sampler_pc[d] = "sleep"
    /\ ~Full
    /\ LET e == Envelope(MQTT_READINGS, item)
           r == HeapPush(mqtt_queue, e)
       IN  /\ mqtt_queue' = r.h
           /\ Enqueued(e)
           /\ sampler_pc' = [sampler_pc EXCEPT ![d] =
                                IF r.err THEN "done" ELSE "sleep"]
    /\ UNCHANGED <<tcp_vars, reload_vars, fn_vars, signalled, last_read, monitor_pc,
                   version, reader_pc, publisher_pc, queue, counter, pending,
                   transport, inflight, reg_timer, pub_timer, arrivals,
                   emitted, last_a, reg_count, reg_gap, after_failure, warned,
                   outcome>>

\* the envelope get() is about to return can be published: it is a
\* Register, or a reading with a "name"
TopPublishable == TopicOf(HeapPop(mqtt_queue).item) # <<>>

\* a publisher that treats every error as a lost connection: log and sleep
GetUnnamedBacksOff ==
    /\ publisher_pc = "get"
    /\ Len(mqtt_queue) > 0
    /\ ~HeapPop(mqtt_queue).err
    /\ ~TopPublishable
    /\ mqtt_queue' = HeapPop(mqtt_queue).h
    /\ order' = Without(HeapPop(mqtt_queue).item)
    /\ publisher_pc' = "backoff"
    /\ pub_timer' = interval
    /\ outcome' = <<"KeyError">>
    /\ UNCHANGED <<tcp_vars, reload_vars, fn_vars, signalled, last_read, monitor_pc,
                   version, reader_pc, sampler_pc, queue, counter, pending,
                   transport, inflight, reg_timer, arrivals, emitted,
                   last_a, reg_count, reg_gap, after_failure, warned>>

\* mqtt.py:148-152 and 157-159: get() returns a reading without "name",
\* item["name"] raises KeyError before anything is awaited; `async with`
\* closes the connection, the error is logged and the loop starts over
GetUnnamed ==
    /\ publisher_pc = "get"
    /\ Len(mqtt_queue) > 0
    /\ ~HeapPop(mqtt_queue).err
    /\ ~TopPublishable
    /\ mqtt_queue' = HeapPop(mqtt_queue).h
    /\ order' = Without(HeapPop(mqtt_queue).item)
    /\ publisher_pc' = "connect"
    /\ outcome' = <<"KeyError">>
    /\ UNCHANGED <<tcp_vars, reload_vars, fn_vars, signalled, last_read, monitor_pc,
                   version, reader_pc, sampler_pc, queue, counter, pending,
                   transport, inflight, reg_timer, pub_timer, arrivals, emitted,
                   last_a, reg_count, reg_gap, after_failure, warned>>

\* mqtt.py:148-153 otherwise: the heap raises, or the envelope goes on to
\* client.publish()
GetNamed ==
    /\ Len(mqtt_queue) > 0
    /\ HeapPop(mqtt_queue).err \/ TopPublishable
    /\ Get

\* the publisher with a broker that may fail, fed with readings of which
\* some have no "name"
HandleNext ==
    \/ \E d \in Devices, item \in HandleItems : PutItem(d, item)
    \/ Connect
    \/ ConnectFail
    \/ GetNamed
    \/ GetUnnamed
    \/ PublishOk
    \/ PublishFail
    \/ BackoffEnd
    \/ Tick

HandleSpec == Init /\ [][HandleNext]_vars

\* --------------------------------------------------------- control bus
\* a Pause that stops every running sampler
PostSignalStopsSamplers(kind) ==
    /\ kind \in {"pause", "resume"}
    /\ signalled' = kind
    /\ sampler_pc' = [d \in Devices |->
                         IF kind = "pause" /\ sampler_pc[d] = "sleep"
                         THEN "cancelled" ELSE sampler_pc[d]]
    /\ UNCHANGED <<version, reader_pc, publisher_pc, queue, counter, pending,
                   transport, mqtt_queue, inflight, reg_timer, pub_timer,
                   arrivals, emitted, last_a, reg_count, reg_gap, order,
                   after_failure, warned, outcome, last_read, monitor_pc,
                   reload_vars, tcp_vars, fn_vars>>

\* signal_pause / signal_resume (client.py:66-71, run by SIGUSR1 / SIGUSR2
\* through loop.add_signal_handler, client.py:163-164) and server_pause /
\* server_resume (http.py:117-128): pub.sendMessage calls every listener
\* of the topic, and no module subscribes to Topic.CLIENT_PAUSE or
\* Topic.CLIENT_RESUME (the only pub.subscribe calls are client.py:92 and
\* mqtt.py:113)
PostSignal(kind) ==
    /\ kind \in {"pause", "resume"}
    /\ signalled' = kind
    /\ UNCHANGED <<pipeline_vars, monitor_pc, reload_vars, tcp_vars, fn_vars>>

\* the pipeline with Pause and Resume signals posted at any time, devices
\* that deliver their lines and a broker that accepts everything
ControlNext ==
    \/ \E kind \in {"pause", "resume"} : PostSignal(kind)
    \/ \E d \in Devices : RegisterFirst(d)
    \/ \E d \in Devices : RegisterSecond(d)
    \/ \E d \in Devices : ReadLine(d)
    \/ \E d \in Devices : OpenOk(d)
    \/ \E d \in Devices : ReadingsEnd(d)
    \/ \E d \in Devices : SamplerEmit(d)
    \/ \E d \in Devices : SamplerPut(d)
    \/ \E d \in Devices : SamplerMissing(d)
    \/ Connect
    \/ Get
    \/ PublishOk
    \/ Tick

ControlSpec == Init /\ [][ControlNext]_vars

\* ------------------------------------------------------ is_mac_address
\* Strings are sequences of one-character strings.
HexLower == <<"0", "1", "2", "3", "4", "5", "6", "7", "8", "9",
              "a", "b", "c", "d", "e", "f">>
HexUpper == <<"0", "1", "2", "3", "4", "5", "6", "7", "8", "9",
              "A", "B", "C", "D", "E", "F">>

IsHexDigit(c) == \E i \in 1..16 : HexLower[i] = c \/ HexUpper[i] = c

\* the value of a hex digit
HexVal(c) == (CHOOSE i \in 1..16 : HexLower[i] = c \/ HexUpper[i] = c) - 1

\* str.split(sep) for a one-character separator
RECURSIVE Split(_, _)
Split(str, sep) ==
    LET hits == {i \in 1..Len(str) : str[i] = sep}
    IN  IF hits = {} THEN <<str>>
        ELSE LET i == CHOOSE h \in hits : \A g \in hits : h <= g
             IN  <<SubSeq(str, 1, i - 1)>>
                     \o Split(SubSeq(str, i + 1, Len(str)), sep)

\* sep.join(parts)
RECURSIVE Join(_, _)
Join(parts, sep) ==
    IF Len(parts) = 0 THEN <<>>
    ELSE IF Len(parts) = 1 THEN parts[1]
    ELSE parts[1] \o <<sep>> \o Join(Tail(parts), sep)

\* str.strip() as int() applies it: blanks off both ends
RECURSIVE Strip(_)
Strip(str) ==
    IF str = <<>> THEN str
    ELSE IF str[1] = " " THEN Strip(Tail(str))
    ELSE IF str[Len(str)] = " " THEN Strip(SubSeq(str, 1, Len(str) - 1))
    ELSE str

\* the digits of int(x, 16), underscores dropped: [ok, val]
RECURSIVE HexFold(_, _)
HexFold(str, acc) ==
    IF str = <<>> THEN acc
    ELSE IF str[1] = "_" THEN HexFold(Tail(str), acc)
    ELSE HexFold(Tail(str), acc * 16 + HexVal(str[1]))

\* digits with single underscores between them, as int() wants them
DigitsOk(str) ==
    /\ str # <<>>
    /\ \A i \in 1..Len(str) : IsHexDigit(str[i]) \/ str[i] = "_"
    /\ IsHexDigit(str[1])
    /\ IsHexDigit(str[Len(str)])
    /\ \A i \in 1..(Len(str) - 1) : ~(str[i] = "_" /\ str[i + 1] = "_")

\* int(x, 16): blanks stripped, an optional sign, an optional 0x prefix
\* (which one underscore may follow), then the digits.  [ok, val];
\* ok = FALSE is ValueError
Int16(x) ==
    LET t0 == Strip(x)
        signed == t0 # <<>> /\ t0[1] \in {"+", "-"}
        t1 == IF signed THEN Tail(t0) ELSE t0
        prefixed == Len(t1) >= 2 /\ t1[1] = "0" /\ t1[2] \in {"x", "X"}
        t2 == IF prefixed THEN SubSeq(t1, 3, Len(t1)) ELSE t1
        t3 == IF prefixed /\ t2 # <<>> /\ t2[1] = "_" THEN Tail(t2) ELSE t2
        mag == HexFold(t3, 0)
    IN  IF DigitsOk(t3)
        THEN [ok |-> TRUE,
              val |-> IF signed /\ t0[1] = "-" THEN 0 - mag ELSE mag]
        ELSE [ok |-> FALSE, val |-> 0]

\* the uppercase hex digits of n >= 0
RECURSIVE HexDigitsOf(_)
HexDigitsOf(n) ==
    IF n < 16 THEN <<HexUpper[n + 1]>>
    ELSE HexDigitsOf(n \div 16) \o <<HexUpper[(n % 16) + 1]>>

\* f"{n:02X}": uppercase hex, the sign first, zeros up to two characters
Format02X(n) ==
    LET digits == HexDigitsOf(IF n < 0 THEN 0 - n ELSE n)
    IN  IF n < 0 THEN <<"-">> \o digits
        ELSE IF Len(digits) < 2 THEN <<"0">> \o digits
        ELSE digits

\* is_mac_address (model.py:51-64): [ok, mac]; ok = FALSE is ValueError
is_mac_address(value) ==
    LET mac_parts == Split(value, ":")
    IN  IF Len(mac_parts) # 6 THEN [ok |-> FALSE, mac |-> <<>>]
        ELSE IF \E i \in 1..6 : ~Int16(mac_parts[i]).ok
        THEN [ok |-> FALSE, mac |-> <<>>]
        ELSE [ok |-> TRUE,
              mac |-> Join([i \in 1..6 |->
                               Format02X(Int16(mac_parts[i]).val)], ":")]

\* the characters the strings tried are made of
Chars == {"0", "a", "F", "G", "x", "-", " ", "_"}

\* the strings of at most n of those characters
Parts(n) == UNION {[1..k -> Chars] : k \in 0..n}

\* "0a:1B:2c:3D:4e:5F"
ExampleMac ==
    Join(<<<<"0", "a">>, <<"1", "B">>, <<"2", "c">>, <<"3", "D">>,
           <<"4", "e">>, <<"5", "F">>>>, ":")

\* the strings tried: the example, and every string of five, six or seven
\* parts of which one is any string of at most MaxPart characters and the
\* others are "0a"
MacInputs ==
    {ExampleMac} \cup
    {Join([j \in 1..n |-> IF j = i THEN part ELSE <<"0", "a">>], ":") :
        n \in 5..7, i \in 1..7, part \in Parts(MaxPart)}

\* PhotometerInfo validates mac_address (model.py:101, 109); each string
\* is validated on its own, the function keeps nothing between calls
ValidateMac(value) ==
    /\ mac_in = <<>>
    /\ mac_in' = value
    /\ mac_out' = is_mac_address(value)
    /\ UNCHANGED <<pipeline_vars, monitor_pc, reload_vars, tcp_vars, pub_from,
                   pub_envelope, pub_topic, signalled>>

MacNext == \E value \in MacInputs : ValidateMac(value)

\* is_mac_address on its own
MacSpec == Init /\ [][MacNext]_vars

\* ======================================================================
\* Properties
\* ======================================================================

\* the publisher takes an envelope out of the queue in this step, whether
\* get() returns it or the heap raises after removing it
Dequeues == publisher_pc = "get" /\ publisher_pc' \in {"publish", "connect"}

\* C1: when the publisher dequeues an envelope, no envelope with a
\* strictly lower priority value is in the outbound queue, so a queued
\* Register always leaves before a queued Reading.
C1_PriorityOrder ==
    [][Dequeues =>
          LET gone == IF publisher_pc' = "publish" THEN inflight'[1]
                      ELSE mqtt_queue[1]
          IN  \A i \in 1..Len(mqtt_queue) : mqtt_queue[i].prio >= gone.prio]_vars

\* the publisher holds a Register it dequeued while a Reading is queued
\* and a Register enqueued after that Reading is queued too
C1_Witness ==
    /\ publisher_pc = "publish"
    /\ inflight[1].prio = MQTT_REGISTER
    /\ Len(order) = 2
    /\ order[1].prio = MQTT_READINGS
    /\ order[2].prio = MQTT_REGISTER

\* a producer's put() raises in this step
PutRaises ==
    \E d \in Devices :
        \/ reader_pc[d] # "failed_put" /\ reader_pc'[d] = "failed_put"
        \/ sampler_pc[d] # "done" /\ sampler_pc'[d] = "done"

\* the oldest queued envelope of priority p
Oldest(p) ==
    order[CHOOSE i \in 1..Len(order) :
              /\ order[i].prio = p
              /\ \A j \in 1..(i - 1) : order[j].prio # p]

\* C2: two envelopes of the same priority that are queued together are
\* both accepted and leave in enqueue order, whatever their payloads: no
\* put and no get fails on a tie, and a get returns the oldest envelope of
\* its priority.
C2_FifoWithinPriority ==
    [][/\ ~PutRaises
       /\ Dequeues => /\ publisher_pc' = "publish"
                      /\ inflight'[1] = Oldest(inflight'[1].prio)]_vars

\* the sampler of d places a Reading envelope in the queue in this step
Emits(d) == emitted'[d] # emitted[d]

\* the sampler of d takes a reading out of the slot in this step
Pops(d) == counter'[d] # counter[d]

Last(q) == q[Len(q)]

\* C3: the seq values of the Reading envelopes a device enqueues are
\* 0, 1, 2, ... in enqueue order: each one equals the number of Readings
\* the device enqueued before it.
C3_SeqNoGap ==
    [][\A d \in Devices :
          Emits(d) => /\ emitted'[d] = emitted[d] + 1
                      /\ Last(order').prio = MQTT_READINGS
                      /\ Last(order').msg.name = d
                      /\ Last(order').msg.seq = emitted[d]]_vars

\* a device has enqueued its second reading, stamped 1, into a queue that
\* is now full, with an empty tick behind it
C3_Witness ==
    \E d \in Devices :
        /\ emitted[d] = 2
        /\ Last(order).msg = Reading(d, 2, 1)
        /\ Len(mqtt_queue) = QSize
        /\ warned[d]

\* C4: the envelope a tick produces carries the newest reading pushed
\* before the tick, a reading that no earlier tick took; a put() that had
\* to wait enqueues exactly the envelope of its tick.
C4_LatestValueWins ==
    [][\A d \in Devices :
          /\ Pops(d) =>
                LET e == IF sampler_pc'[d] = "put" THEN pending'[d][1]
                         ELSE Last(order')
                IN  /\ e.msg.name = d
                    /\ e.msg.a = arrivals[d]
                    /\ e.msg.a > last_a[d]
          /\ (Emits(d) /\ ~Pops(d)) => Last(order') = pending[d][1]]_vars

\* two readings arrived in one period and the tick enqueued the second
\* one with seq 0
C4_Witness ==
    \E d \in Devices :
        /\ arrivals[d] = 2
        /\ emitted[d] = 1
        /\ \E i \in 1..Len(mqtt_queue) : mqtt_queue[i].msg = Reading(d, 2, 0)

\* C5: the ring slot never holds more than one value; a push leaves the
\* pushed value alone in the slot, and a pop returns the value pushed
\* last and leaves the slot empty.
C5_RingSlot ==
    [][\A d \in Devices :
          /\ Len(queue'[d]) <= 1
          /\ arrivals'[d] # arrivals[d] => queue'[d] = <<arrivals'[d]>>
          /\ Pops(d) => /\ queue'[d] = <<>>
                        /\ last_a'[d] = arrivals[d]]_vars

\* V1 then V2 were pushed, one pop returned V2 and the next tick found
\* the slot empty
C5_Witness ==
    \E d \in Devices :
        /\ arrivals[d] = 2
        /\ counter[d] = 1
        /\ last_a[d] = 2
        /\ queue[d] = <<>>
        /\ warned[d]

\* C6: a tick that finds the slot empty reports missing data and changes
\* nothing else: no envelope is made or enqueued, the counter stays, and
\* the sampler stays in its loop.
C6_EmptyTick ==
    [][\A d \in Devices :
          (~warned[d] /\ warned'[d]) =>
              /\ queue[d] = <<>>
              /\ sampler_pc'[d] = "sleep"
              /\ UNCHANGED <<counter, queue, pending, mqtt_queue, order,
                             emitted, sampler_pc, reader_pc, publisher_pc>>]_vars

\* an empty tick after an emitted reading: the sampler is still ticking
C6_Witness ==
    \E d \in Devices :
        /\ warned[d]
        /\ emitted[d] = 1
        /\ counter[d] = 1
        /\ sampler_pc[d] = "sleep"

\* C7: a reader that has got past register(), or has ended on its own,
\* has enqueued exactly two Register envelopes for its device, the second
\* at least RegisterDelay seconds after the first, and never a third.
C7_TwoRegisters ==
    \A d \in Devices :
        /\ reg_count[d] <= 2
        /\ reader_pc[d] \notin {"register", "sleep", "cancelled"}
              => reg_count[d] = 2
        /\ reg_count[d] = 2 => reg_gap[d] >= RegisterDelay

\* C8: a transport open failure on one device cancels no task of another
\* device and does not cancel the publisher.
C8_FailureIsolation ==
    \A d \in Devices :
        reader_pc[d] = "failed_open" =>
            /\ publisher_pc # "cancelled"
            /\ \A x \in Devices \ {d} :
                  reader_pc[x] # "cancelled" /\ sampler_pc[x] # "cancelled"

\* the publisher meets a broker connectivity failure in this step
BrokerFailure ==
    publisher_pc \in {"connect", "publish"} /\ publisher_pc' = "backoff"

\* C9: a broker connectivity failure costs at most the one envelope that
\* was being published: that one is not put back, a failure to connect
\* costs none, and the queue is left as it was.
C9_AtMostOneLost ==
    [][BrokerFailure =>
          /\ Len(inflight) <= 1
          /\ publisher_pc = "connect" => inflight = <<>>
          /\ inflight' = <<>>
          /\ mqtt_queue' = mqtt_queue
          /\ order' = order]_vars

\* a publish has just failed, and two envelopes are still queued
C9_Witness ==
    /\ publisher_pc = "backoff"
    /\ outcome = <<"broker">>
    /\ pub_timer = interval
    /\ Len(mqtt_queue) = 2

\* C10: after a broker failure the publisher sleeps the whole backoff
\* interval before it connects again, and an envelope enqueued after the
\* failure, once dequeued over a working connection, goes on to be
\* published instead of being discarded.
C10_ReconnectResumes ==
    [][/\ (publisher_pc = "backoff" /\ publisher_pc' = "connect")
             => pub_timer = 0
       /\ (after_failure /\ Dequeues) => publisher_pc' = "publish"]_vars

\* the publisher is suspended in queue.get() on an empty queue
WaitsOnEmpty == publisher_pc = "get" /\ mqtt_queue = <<>>

\* C11: the publisher's wait for an envelope is bounded: it never stays
\* suspended on an empty queue for ever; when no envelope comes it leaves
\* the wait and goes through the reconnect path.
C11_BoundedWait == []<>(~WaitsOnEmpty)

\* C12: the outbound queue never holds more envelopes than its capacity.
\* While it is full no producer enqueues; a sampler whose tick met a
\* full queue keeps exactly the envelope of that tick, and when it leaves
\* the wait (unless the whole task group is cancelled) the queue had room
\* and that envelope is the one enqueued.  Only a dequeue of the
\* publisher makes room.
C12_Backpressure ==
    [][/\ Len(mqtt_queue') <= QSize
       /\ Full => /\ Len(order') <= Len(order)
                  /\ reg_count' = reg_count
                  /\ emitted' = emitted
       /\ Len(mqtt_queue') < Len(mqtt_queue) => Dequeues
       /\ \A d \in Devices :
             /\ (Pops(d) /\ Full) => /\ sampler_pc'[d] = "put"
                                     /\ Len(pending'[d]) = 1
             /\ sampler_pc[d] = "put" =>
                   /\ Len(pending[d]) = 1
                   /\ sampler_pc'[d] = "put" => pending'[d] = pending[d]
                   /\ sampler_pc'[d] \notin {"put", "cancelled"} =>
                         /\ ~Full
                         /\ Last(order') = pending[d][1]]_vars

\* a sampler is suspended holding its envelope and the publisher has just
\* taken an envelope out of the full queue
C12_Witness ==
    \E d \in Devices :
        /\ sampler_pc[d] = "put"
        /\ Len(pending[d]) = 1
        /\ publisher_pc = "publish"
        /\ Len(mqtt_queue) = QSize - 1

\* the envelopes of sequence q as a bag
RECURSIVE BagOf(_)
BagOf(q) ==
    IF q = <<>> THEN [e \in {} |-> 0]
    ELSE LET rest == BagOf(Tail(q))
             e == Head(q)
         IN  [x \in DOMAIN rest \cup {e} |->
                 IF x = e
                 THEN (IF e \in DOMAIN rest THEN rest[e] ELSE 0) + 1
                 ELSE rest[x]]

\* C13: every envelope that leaves the outbound queue is handed to the
\* publisher, one envelope per dequeue: a step that takes an envelope out
\* is a get() of the publisher that returns exactly that envelope and
\* leaves every other envelope queued, and the publisher comes to hold an
\* envelope in no other way.
C13_ExactlyOnce ==
    [][/\ BagOf(mqtt_queue') # BagOf(mqtt_queue) /\ Len(mqtt_queue') <= Len(mqtt_queue)
             => /\ publisher_pc = "get"
                /\ publisher_pc' = "publish"
                /\ Len(inflight') = 1
                /\ BagOf(<<inflight'[1]>> \o mqtt_queue') = BagOf(mqtt_queue)
       /\ (inflight' # inflight /\ inflight' # <<>>)
             => /\ publisher_pc = "get"
                /\ inflight = <<>>
                /\ Len(mqtt_queue') = Len(mqtt_queue) - 1]_vars

\* data_received() has run in this step
Receives == tcp_received' # tcp_received

\* C14: when a chunk completes a line for a waiting caller, the caller
\* gets the bytes up to and including the first delimiter and exactly
\* those bytes leave the buffer: what follows the delimiter in the chunk
\* stays buffered.
C14_FramerKeepsRest ==
    [][(/\ Receives
        /\ on_data_received.st = "pending"
        /\ Find(tcp_buffer, newline) = 0
        /\ Find(tcp_buffer \o tcp_chunk', newline) # 0)
          => /\ on_data_received' =
                    ResultFuture(FirstLine(tcp_buffer \o tcp_chunk'))
             /\ tcp_buffer' = AfterLine(tcp_buffer \o tcp_chunk')]_vars

\* the number of delimiters in s, scanned as data_received scans
RECURSIVE CountLines(_)
CountLines(s) ==
    IF Find(s, newline) = 0 THEN 0 ELSE 1 + CountLines(AfterLine(s))

\* C15: when a chunk held several lines and a call has received the
\* first, the next call returns the next line of the chunk at once, from
\* what is buffered, without waiting for the socket.
C15_OneLinePerCall ==
    [][(/\ CountLines(tcp_chunk) >= 2
        /\ on_data_received.st = "result"
        /\ Find(tcp_undelivered, newline) # 0
        /\ ~Receives
        /\ on_data_received' # on_data_received)
          => on_data_received' = ResultFuture(FirstLine(tcp_undelivered))]_vars

\* connection_lost() has run in this step
Loses == ~on_conn_lost /\ on_conn_lost'

\* C16: a call that is pending when the connection is lost completes
\* with the connection error, and once the connection is lost no call
\* completes with a line.
C16_PendingFails ==
    [][/\ (Loses /\ on_data_received.st = "pending")
             => on_data_received' = FailedFuture
       /\ (on_conn_lost' /\ on_data_received'.st = "result")
             => on_data_received' = on_data_received]_vars

\* the connection was lost in the middle of a line while a call waited
C16_Witness ==
    /\ on_conn_lost
    /\ on_data_received = FailedFuture
    /\ tcp_buffer # <<>>
    /\ Find(tcp_buffer, newline) = 0

\* C17: a call issued after the connection is lost fails with the
\* connection error: no call is left waiting on a lost connection.
C17_CallAfterLossFails ==
    on_conn_lost => on_data_received.st # "pending"

\* C18: a reader task that has ended, by returning, by an error or by
\* cancellation, has left its transport closed.
C18_ReaderClosesTransport ==
    \A d \in Devices :
        reader_pc[d] \in ReaderEnded => transport[d] = "closed"

\* a reload has run to its end in this step, applied or given up
ReloadEnds == monitor_pc = "load" /\ monitor_pc' # "load"

\* the tasks of the task group other than the reload monitor
OtherTasks == <<reader_pc, sampler_pc, publisher_pc>>

\* C19: a reload whose configuration lacks a required key is given up
\* and everything keeps running: the reload monitor goes back to its
\* loop, where a later request is served, and no other task is ended.
C19_ReloadAbortContinues ==
    [][(ReloadEnds /\ ~Complete(options'))
          => /\ monitor_pc' = "sleep"
             /\ UNCHANGED OtherTasks]_vars

\* C20: a reload whose configuration lacks a required key changes no
\* setting, of the publisher or of the administrative surface, whichever
\* key is the missing one.
C20_ReloadAtomic ==
    [][(ReloadEnds /\ ~Complete(options'))
          => UNCHANGED <<mqtt_state, http_state>>]_vars

\* C21: a Register envelope is published to the registration topic, and
\* a Reading envelope to the reading topic of the device whose sampler
\* enqueued it, never to the topic of another name.
C21_TopicOfDevice ==
    pub_topic # <<>> =>
        pub_topic[1] = IF pub_envelope[1].prio = MQTT_REGISTER
                       THEN RegisterTopic
                       ELSE ReadingTopic(pub_from)

\* an octet as the claim wants it: one or two hex digits
IsOctet(part) ==
    /\ Len(part) \in {1, 2}
    /\ \A i \in 1..Len(part) : IsHexDigit(part[i])

\* an octet in uppercase two-digit form
Upper2(part) ==
    LET up == [i \in 1..Len(part) |-> HexUpper[HexVal(part[i]) + 1]]
    IN  IF Len(part) = 1 THEN <<"0">> \o up ELSE up

\* C22: is_mac_address accepts a string exactly when it is six
\* colon-separated parts of one or two hex digits each, and then returns
\* the parts in uppercase two-digit form; every other string is rejected.
C22_MacShape ==
    mac_in # <<>> =>
        LET parts == Split(mac_in, ":")
            shaped == Len(parts) = 6 /\ \A i \in 1..6 : IsOctet(parts[i])
        IN  /\ mac_out.ok = shaped
            /\ shaped => mac_out.mac =
                            Join([i \in 1..6 |-> Upper2(parts[i])], ":")

\* C23: a device's reader opens no transport and delivers no reading, and
\* no reading of the device is enqueued or waiting to be, before both of
\* its Register envelopes have been enqueued.
C23_RegisterBeforeReadings ==
    \A d \in Devices :
        (\/ transport[d] = "open"
         \/ arrivals[d] > 0
         \/ last_read[d] # "none"
         \/ emitted[d] > 0
         \/ pending[d] # <<>>
         \/ reader_pc[d] \in {"read", "open", "readings", "done",
                              "failed_open"})
            => reg_count[d] = 2

\* a reading of a device has been enqueued, after its two registers
C23_Witness ==
    \E d \in Devices :
        /\ emitted[d] > 0
        /\ reg_count[d] = 2
        /\ arrivals[d] > 0

\* C24: once a device's reader has ended on a read error or on a failed
\* open, it stays ended: it opens no transport, reads no line and puts
\* nothing into the slot (the sampler may still empty the slot).
C24_ReaderEndsForGood ==
    [][\A d \in Devices :
          reader_pc[d] \in {"done", "failed_open"} =>
              /\ reader_pc'[d] = reader_pc[d]
              /\ transport'[d] = transport[d]
              /\ arrivals'[d] = arrivals[d]
              /\ last_read'[d] = last_read[d]
              /\ queue'[d] = queue[d] \/ queue'[d] = <<>>]_vars

\* a version 1 reader ended by a read error after it had read a line, with
\* its sampler still running
C24_Witness ==
    \E d \in Devices :
        /\ version = 1
        /\ reader_pc[d] = "done"
        /\ last_read[d] = "object"
        /\ sampler_pc[d] = "sleep"
        /\ emitted[d] > 0

\* C25: the step in which a reader gets a line that is not JSON or not a
\* JSON object changes nothing the program keeps: the slot holds what it
\* held, nothing is enqueued, no counter moves, no task changes position
\* and the reader is still in its read loop.
C25_BadLineDiscarded ==
    [][\A d \in Devices :
          (last_read'[d] \in Discarded /\ last_read'[d] # last_read[d]) =>
              /\ reader_pc'[d] = "read"
              /\ UNCHANGED <<queue, mqtt_queue, order, pending, counter,
                             arrivals, emitted, reader_pc, sampler_pc,
                             publisher_pc, transport>>]_vars

\* a line was discarded while the slot held a reading: the slot still
\* holds it and the reader is in its loop
C25_Witness ==
    \E d \in Devices :
        /\ last_read[d] \in Discarded
        /\ queue[d] # <<>>
        /\ reader_pc[d] = "read"

\* C26: a sampler leaves its loop only in a step where its own put raised
\* (the envelope of the tick went onto the heap and the heap raised) or
\* where the task group is cancelled; a step that ends the device's reader
\* leaves the sampler where it was, and a sampler in its loop beside an
\* ended reader always has its next tick to take.
C26_SamplerEndsOnErrorOnly ==
    [][\A d \in Devices :
          /\ (sampler_pc[d] \notin SamplerEnded
                  /\ sampler_pc'[d] \in SamplerEnded) =>
                 \/ /\ sampler_pc'[d] = "done"
                    /\ emitted'[d] = emitted[d] + 1
                    /\ order' # order
                    /\ LET r == HeapPush(mqtt_queue, order'[Len(order')])
                       IN  r.err /\ mqtt_queue' = r.h
                 \/ /\ sampler_pc'[d] = "cancelled"
                    /\ publisher_pc' = "cancelled"
          /\ (reader_pc[d] # "done" /\ reader_pc'[d] = "done") =>
                 sampler_pc'[d] = sampler_pc[d]
          /\ (~warned[d] /\ warned'[d]) => sampler_pc'[d] = "sleep"
          /\ (reader_pc[d] = "done" /\ sampler_pc[d] = "sleep") =>
                 ENABLED (SamplerEmit(d) \/ SamplerMissing(d))]_vars

\* a sampler still in its loop beside a reader that has ended: every
\* reading delivered was enqueued and the latest tick found the slot empty
C26_Witness ==
    \E d \in Devices :
        /\ reader_pc[d] = "done"
        /\ sampler_pc[d] = "sleep"
        /\ warned[d]
        /\ queue[d] = <<>>
        /\ emitted[d] = arrivals[d]
        /\ arrivals[d] > 0

\* the waits, old and current, that are in state st
Waits(old, cur, st) ==
    Cardinality({i \in 1..Len(old) : old[i] = st})
        + (IF cur.st = st THEN 1 ELSE 0)

\* C27: at most one wait is pending at any time; a call made while the
\* earlier wait is unresolved leaves that wait cancelled; a wait that has
\* been replaced never changes again (a cancelled one gets no line); and a
\* step resolves at most one wait with a line, only when bytes arrived.
C27_OnePendingWait ==
    [][/\ Waits(stale', on_data_received', "pending") <= 1
       /\ SubSeq(stale', 1, Len(stale)) = stale
       /\ (Len(stale') > Len(stale) /\ on_data_received.st = "pending") =>
              stale'[Len(stale')] = "cancelled"
       /\ Waits(stale', on_data_received', "result")
              <= Waits(stale, on_data_received, "result") + 1
       /\ Waits(stale', on_data_received', "result")
              > Waits(stale, on_data_received, "result") =>
              /\ tcp_received' > tcp_received
              /\ on_data_received.st = "pending"
              /\ on_data_received'.st = "result"]_vars

\* a wait was cancelled by a later call, and the later call got a line
C27_Witness ==
    /\ \E i \in 1..Len(stale) : stale[i] = "cancelled"
    /\ on_data_received.st = "result"

\* C28: a reload request made while the reload monitor is running is
\* followed by the monitor taking it up: the flag is cleared only by the
\* poll that starts a new read of the file (MonitorPoll).
C28_RequestServed ==
    (reloaded /\ monitor_pc \notin MonitorEnded) ~> ~reloaded

\* C29: while the publisher is suspended in the publish of an envelope,
\* its configuration (keepalive, log level, protocol log level) stays as
\* it was when the publish started.
C29_ConfigStableDuringPublish ==
    [][(publisher_pc = "publish" /\ publisher_pc' = "publish") =>
          mqtt_state' = mqtt_state]_vars

\* C30: a complete line that arrives while no call is waiting is kept:
\* after such a step the buffer holds everything that was in it and
\* everything that arrived.
C30_LineKeptWithoutWaiter ==
    [][(Receives /\ on_data_received.st # "pending") =>
          tcp_buffer' = tcp_buffer \o tcp_chunk']_vars

\* C31: an envelope leaves the outbound queue only in a step of a
\* publisher that is connected and in get(); while the publisher is
\* connecting or in its backoff the queue stays as it is or becomes what
\* a producer's put makes of it, and the step of a failed connection
\* attempt leaves the queue exactly as it was.
C31_DequeueOnlyConnected ==
    [][/\ Len(mqtt_queue') < Len(mqtt_queue) => publisher_pc = "get"
       /\ publisher_pc \in {"connect", "backoff"} =>
              \/ mqtt_queue' = mqtt_queue
              \/ /\ order' # order
                 /\ order' = Append(order, order'[Len(order')])
                 /\ mqtt_queue' =
                        HeapPush(mqtt_queue, order'[Len(order')]).h
       /\ (publisher_pc = "connect" /\ publisher_pc' = "backoff") =>
              UNCHANGED <<mqtt_queue, order, inflight>>]_vars

\* a connection attempt has failed with envelopes queued: the publisher
\* waits out the backoff and the envelopes are still there
C31_Witness ==
    /\ publisher_pc = "backoff"
    /\ pub_timer > 0
    /\ Len(mqtt_queue) >= 2
    /\ outcome = <<>>

\* C32: when get() returns a reading without "name" the step drops that
\* envelope and nothing else (it is neither held nor put back), the
\* publisher is at the start of its next iteration, and no backoff has
\* been started.
C32_HandlingErrorSkips ==
    [][(/\ publisher_pc = "get"
        /\ publisher_pc' # "get"
        /\ ~HeapPop(mqtt_queue).err
        /\ ~TopPublishable) =>
           /\ mqtt_queue' = HeapPop(mqtt_queue).h
           /\ inflight' = <<>>
           /\ publisher_pc' = "connect"
           /\ pub_timer' = 0]_vars

\* a reading without "name" was dropped while other envelopes wait: the
\* publisher is about to connect again, with no backoff running
C32_Witness ==
    /\ outcome = <<"KeyError">>
    /\ publisher_pc = "connect"
    /\ pub_timer = 0
    /\ mqtt_queue # <<>>

\* C33: the step that posts a Pause or a Resume changes nothing of the
\* pipeline (slots, counters, outbound queue, every task's position), and
\* once a signal has been posted every task still has the step it would
\* have had: a reader in its loop can read, a sampler in its loop can
\* tick, a producer waiting with room in the queue can put, and the
\* publisher can dequeue and publish.  (Another signal can be posted in
\* every state, so the states a posting step starts from are all the
\* states in which a signal has been posted.)
C33_PauseResumeNoEffect ==
    [][/\ signalled' # signalled => UNCHANGED pipeline_vars
       /\ (signalled # "none" /\ signalled' # signalled) =>
              /\ \A d \in Devices :
                     /\ (version = 1 /\ reader_pc[d] = "read"
                             /\ Delivered < MaxArrivals) =>
                            ENABLED ReadLine(d)
                     /\ sampler_pc[d] = "sleep" =>
                            ENABLED (SamplerEmit(d) \/ SamplerMissing(d))
                     /\ (sampler_pc[d] = "put" /\ ~Full) =>
                            ENABLED SamplerPut(d)
              /\ (publisher_pc = "get" /\ mqtt_queue # <<>>) => ENABLED Get
              /\ publisher_pc = "publish" => ENABLED PublishOk]_vars

\* a Pause has been posted and the pipeline is at work: a reader in its
\* loop, a reading of its device enqueued, the publisher publishing
C33_Witness ==
    /\ signalled = "pause"
    /\ publisher_pc = "publish"
    /\ \E d \in Devices :
           /\ reader_pc[d] = "read"
           /\ sampler_pc[d] = "sleep"
           /\ emitted[d] > 0

====
